---- MODULE Spec2Model ----
(***************************************************************************)
(* Model of analyze_vpat.py: the triage of a VPAT PDF between the chat     *)
(* (text) analyser and the per-page vision fallback.                       *)
(*                                                                         *)
(* A string is a sequence of one-character strings.  A document is a       *)
(* record [openable, pages]: whether fitz.open succeeds, and the text      *)
(* page.get_text("text") yields for each page.  The staged image of page i *)
(* of the document of analysis p is the record [owner |-> p, page |-> i].  *)
(***************************************************************************)
EXTENDS Integers, Sequences, FiniteSets, TLC

VARIABLES
    doc,        \* doc[p]: the PDF given to analysis p (pdf_path's content)
    pc,         \* pc[p]: the position of analysis p inside analyze_pdf
    text,       \* text[p]: the local `text` of analyze_pdf
    lines,      \* lines[p]: the local `lines` of analyse_scanned_pdf
    i,          \* i[p]: the pages analyse_scanned_pdf's loop has completed
    raw,        \* raw[p]: message.content of the last model response
    result,     \* result[p]: what analyze_pdf returned, NoResult before
    err,        \* err[p]: the exception analyze_pdf left with, "none" if none
    events,     \* events[p]: the calls made so far, in order (history)
    given,      \* given[p]: the image the last analyse_page_image call read
    files,      \* files[path]: the content of the staged images directory
    lastSaver   \* lastSaver[n]: who last saved an image of page n (history)

vars == <<doc, pc, text, lines, i, raw, result, err, events, given, files, lastSaver>>

----------------------------------------------------------------------------
(* Bounds of the model *)

MaxPages == 2
MaxChatLines == 3
MaxImageLines == 2

(* len(text.strip()) > 50, analyze_vpat.py line 187 *)
THRESHOLD == 50

NL == "\n"
SP == " "
Whitespace == {SP, NL, "\t", "\r"}

----------------------------------------------------------------------------
(* Strings *)

Rep(c, n) == [k \in 1..n |-> c]

SeqsUpTo(S, n) == UNION {[1..k -> S] : k \in 0..n}

RECURSIVE LStrip(_)
LStrip(s) ==
    IF s = <<>> THEN s
    ELSE IF Head(s) \in Whitespace THEN LStrip(Tail(s)) ELSE s

RECURSIVE RStrip(_)
RStrip(s) ==
    IF s = <<>> THEN s
    ELSE IF s[Len(s)] \in Whitespace THEN RStrip(SubSeq(s, 1, Len(s) - 1)) ELSE s

(* str.strip() *)
Strip(s) == RStrip(LStrip(s))

(* str.split("\n"): the segments between newlines; "" splits to [""] *)
RECURSIVE SplitFrom(_, _)
SplitFrom(s, cur) ==
    IF s = <<>> THEN <<cur>>
    ELSE IF Head(s) = NL THEN <<cur>> \o SplitFrom(Tail(s), <<>>)
    ELSE SplitFrom(Tail(s), Append(cur, Head(s)))

Split(s) == SplitFrom(s, <<>>)

(* "\n".join(ls) *)
RECURSIVE Join(_)
Join(ls) ==
    IF ls = <<>> THEN <<>>
    ELSE IF Len(ls) = 1 THEN ls[1]
    ELSE ls[1] \o <<NL>> \o Join(Tail(ls))

----------------------------------------------------------------------------
(* The inputs *)

(* what one page's get_text("text") may be: nothing (a scanned page), *)
(* exactly THRESHOLD characters, one more than THRESHOLD              *)
PageTexts == {<<>>, Rep("a", THRESHOLD), Rep("a", THRESHOLD + 1)}

Documents ==
    {[openable |-> TRUE, pages |-> ps] : ps \in SeqsUpTo(PageTexts, MaxPages)}
    \cup {[openable |-> FALSE, pages |-> <<>>]}

(* a response of the chat model: up to MaxChatLines lines, each an empty *)
(* line, a line of white space, a criterion line, or a criterion line    *)
(* with white space before it                                            *)
ChatLineKinds == {<<>>, <<SP>>, <<"a">>, <<SP, "b">>}

ChatOutputs == {Join(ls) : ls \in SeqsUpTo(ChatLineKinds, MaxChatLines)}

(* a response of the vision model for one page: nothing, white space, or *)
(* up to MaxImageLines criterion lines with a newline, an empty line or  *)
(* a line of white space between one and the next                        *)
CriterionLines == {<<"a">>, <<SP, "b">>}
Separators == {<<NL>>, <<NL, NL>>, <<NL, SP, NL>>}

RECURSIVE JoinWith(_, _)
JoinWith(ls, sep) ==
    IF ls = <<>> THEN <<>>
    ELSE IF Len(ls) = 1 THEN ls[1]
    ELSE ls[1] \o sep \o JoinWith(Tail(ls), sep)

ImageOutputs ==
    {JoinWith(ls, sep) : ls \in SeqsUpTo(CriterionLines, MaxImageLines), sep \in Separators}
    \cup {<<SP>>}

NoResult == <<"<no result>">>
NoImage == [owner |-> 0, page |-> 0]

Procs == DOMAIN pc

----------------------------------------------------------------------------
(* The functions of analyze_vpat.py *)

(* extract_vpat_text: text = ""; for page in doc: text += page_text + "\n" *)
RECURSIVE ExtractLoop(_, _)
ExtractLoop(pages, acc) ==
    IF pages = <<>> THEN acc
    ELSE ExtractLoop(Tail(pages), acc \o Head(pages) \o <<NL>>)

(* the pages joined, "\n".join(...), no newline after the last *)
extract_vpat_text_Joined(pages) == Join(pages)

extract_vpat_text(pages) == ExtractLoop(pages, <<>>)

(* the length taken of the text as extracted, not of text.strip() *)
IsTextBearing_Untrimmed(t) == t # <<>> /\ Len(t) > THRESHOLD

(* the condition of analyze_pdf: text and len(text.strip()) > 50 *)
IsTextBearing(t) == t # <<>> /\ Len(Strip(t)) > THRESHOLD

(* analyse_text_with_chat / analyse_page_image: message.content.strip() *)
ModelResult(content) == Strip(content)

(* the path made of the analysis too: a scratch file per request *)
ImagePath_PerAnalysis(p, n) == <<"images/", p, "/page_", n, ".png">>

(* image_path = f"images/page_{i+1}.png": the analysis p is no part of it *)
ImagePath(p, n) == <<"images/page_", n, ".png">>

(* the filter testing the line, not the line stripped: if line *)
RECURSIVE StripNonEmpty(_)
StripNonEmpty(ls) ==
    IF ls = <<>> THEN <<>>
    ELSE IF Head(ls) # <<>>
         THEN <<Strip(Head(ls))>> \o StripNonEmpty(Tail(ls))
         ELSE StripNonEmpty(Tail(ls))

(* [line.strip() for line in result.split("\n") if line.strip()] *)
RECURSIVE StripNonBlank(_)
StripNonBlank(ls) ==
    IF ls = <<>> THEN <<>>
    ELSE IF Strip(Head(ls)) # <<>>
         THEN <<Strip(Head(ls))>> \o StripNonBlank(Tail(ls))
         ELSE StripNonBlank(Tail(ls))

PageLines(res) == StripNonBlank(Split(res))

(* the page's lines put before the lines collected so far *)
ExtendLines_Prepend(ls, res) == IF res # <<>> THEN PageLines(res) \o ls ELSE ls

(* if result: lines.extend(...) *)
ExtendLines(ls, res) == IF res # <<>> THEN ls \o PageLines(res) ELSE ls

Call(op, n, raised) == [op |-> op, page |-> n, raised |-> raised]

PageImage(p, n) == [owner |-> p, page |-> n]

NumPages(p) == Len(doc[p].pages)

----------------------------------------------------------------------------
(* The steps of one call analyze_pdf(pdf_path), run by analysis p *)

(* line 186: extract_vpat_text(pdf_path); fitz.open raises on a file that *)
(* is no PDF, and nothing in analyze_pdf catches it                        *)
ExtractText(p) ==
    /\ pc[p] = "start"
    /\ IF doc[p].openable
       THEN /\ text' = [text EXCEPT ![p] = extract_vpat_text(doc[p].pages)]
            /\ pc' = [pc EXCEPT ![p] = "extracted"]
            /\ err' = err
       ELSE /\ pc' = [pc EXCEPT ![p] = "failed"]
            /\ err' = [err EXCEPT ![p] = "DocumentOpenError"]
            /\ text' = text
    /\ UNCHANGED <<doc, lines, i, raw, result, events, given, files, lastSaver>>

(* line 187: the threshold check *)
Triage(p) ==
    /\ pc[p] = "extracted"
    /\ pc' = [pc EXCEPT ![p] = IF IsTextBearing(text[p]) THEN "chat" ELSE "vision"]
    /\ UNCHANGED <<doc, text, lines, i, raw, result, err, events, given, files, lastSaver>>

(* line 189: return analyse_text_with_chat(text), the model answering *)
ChatReturnsWith(p, outs) ==
    /\ pc[p] = "chat"
    /\ \E content \in outs :
          /\ raw' = [raw EXCEPT ![p] = content]
          /\ result' = [result EXCEPT ![p] = ModelResult(content)]
    /\ events' = [events EXCEPT ![p] = Append(@, Call("chat", 0, FALSE))]
    /\ pc' = [pc EXCEPT ![p] = "done"]
    /\ UNCHANGED <<doc, text, lines, i, err, given, files, lastSaver>>

(* an empty answer of the chat model taken for a failure: if result: return *)
ChatReturns_EmptyFallsBack(p) ==
    /\ pc[p] = "chat"
    /\ \E content \in ChatOutputs :
          /\ raw' = [raw EXCEPT ![p] = content]
          /\ IF ModelResult(content) # <<>>
             THEN /\ result' = [result EXCEPT ![p] = ModelResult(content)]
                  /\ pc' = [pc EXCEPT ![p] = "done"]
             ELSE /\ result' = result
                  /\ pc' = [pc EXCEPT ![p] = "vision"]
    /\ events' = [events EXCEPT ![p] = Append(@, Call("chat", 0, FALSE))]
    /\ UNCHANGED <<doc, text, lines, i, err, given, files, lastSaver>>

ChatReturns(p) == ChatReturnsWith(p, ChatOutputs)

(* the chat call tried again after a failure *)
ChatRaises_Retry(p) ==
    /\ pc[p] = "chat"
    /\ events' = [events EXCEPT ![p] = Append(@, Call("chat", 0, TRUE))]
    /\ UNCHANGED <<doc, pc, text, lines, i, raw, result, err, given, files, lastSaver>>

(* the chat failure not caught *)
ChatRaises_Propagate(p) ==
    /\ pc[p] = "chat"
    /\ events' = [events EXCEPT ![p] = Append(@, Call("chat", 0, TRUE))]
    /\ err' = [err EXCEPT ![p] = "AnalyzerCapabilityError"]
    /\ pc' = [pc EXCEPT ![p] = "failed"]
    /\ UNCHANGED <<doc, text, lines, i, raw, result, given, files, lastSaver>>

(* lines 190-192: except Exception: print(...), then fall through to 194 *)
ChatRaises(p) ==
    /\ pc[p] = "chat"
    /\ events' = [events EXCEPT ![p] = Append(@, Call("chat", 0, TRUE))]
    /\ pc' = [pc EXCEPT ![p] = "vision"]
    /\ UNCHANGED <<doc, text, lines, i, raw, result, err, given, files, lastSaver>>

(* lines 147-149: lines = [], fitz.open(pdf_path), os.makedirs("images") *)
OpenScanned(p) ==
    /\ pc[p] = "vision"
    /\ lines' = [lines EXCEPT ![p] = <<>>]
    /\ i' = [i EXCEPT ![p] = 0]
    /\ pc' = [pc EXCEPT ![p] = "loop"]
    /\ UNCHANGED <<doc, text, raw, result, err, events, given, files, lastSaver>>

(* lines 151-153: pix = page.get_pixmap(dpi=200); pix.save(image_path) *)
RenderPage(p) ==
    /\ pc[p] = "loop"
    /\ i[p] < NumPages(p)
    /\ files' = (ImagePath(p, i[p] + 1) :> PageImage(p, i[p] + 1)) @@ files
    /\ lastSaver' = [lastSaver EXCEPT ![i[p] + 1] = p]
    /\ events' = [events EXCEPT ![p] = Append(@, Call("render", i[p] + 1, FALSE))]
    /\ pc' = [pc EXCEPT ![p] = "saved"]
    /\ UNCHANGED <<doc, text, lines, i, raw, result, err, given>>

(* a page that cannot be rendered skipped, the loop going on *)
RenderRaises_Skip(p) ==
    /\ pc[p] = "loop"
    /\ i[p] < NumPages(p)
    /\ events' = [events EXCEPT ![p] = Append(@, Call("render", i[p] + 1, TRUE))]
    /\ i' = [i EXCEPT ![p] = @ + 1]
    /\ UNCHANGED <<doc, pc, text, lines, raw, result, err, given, files, lastSaver>>

(* lines 151-153 raising: nothing catches it *)
RenderRaises(p) ==
    /\ pc[p] = "loop"
    /\ i[p] < NumPages(p)
    /\ events' = [events EXCEPT ![p] = Append(@, Call("render", i[p] + 1, TRUE))]
    /\ err' = [err EXCEPT ![p] = "RenderError"]
    /\ pc' = [pc EXCEPT ![p] = "failed"]
    /\ UNCHANGED <<doc, text, lines, i, raw, result, given, files, lastSaver>>

(* lines 154-157: result = analyse_page_image(image_path), which reads the *)
(* file at image_path (106-107) and asks the model; then lines.extend      *)
AnalysePageWith(p, outs) ==
    /\ pc[p] = "saved"
    /\ given' = [given EXCEPT ![p] = files[ImagePath(p, i[p] + 1)]]
    /\ \E content \in outs :
          /\ raw' = [raw EXCEPT ![p] = content]
          /\ lines' = [lines EXCEPT ![p] = ExtendLines(@, ModelResult(content))]
    /\ events' = [events EXCEPT ![p] = Append(@, Call("analyse", i[p] + 1, FALSE))]
    /\ i' = [i EXCEPT ![p] = @ + 1]
    /\ pc' = [pc EXCEPT ![p] = "loop"]
    /\ UNCHANGED <<doc, text, result, err, files, lastSaver>>

AnalysePage(p) == AnalysePageWith(p, ImageOutputs)

(* a page whose analysis raised skipped, the loop going on *)
AnalyseRaises_Skip(p) ==
    /\ pc[p] = "saved"
    /\ given' = [given EXCEPT ![p] = files[ImagePath(p, i[p] + 1)]]
    /\ events' = [events EXCEPT ![p] = Append(@, Call("analyse", i[p] + 1, TRUE))]
    /\ i' = [i EXCEPT ![p] = @ + 1]
    /\ pc' = [pc EXCEPT ![p] = "loop"]
    /\ UNCHANGED <<doc, text, lines, raw, result, err, files, lastSaver>>

(* line 154 raising (the model call of analyse_page_image): nothing catches it *)
AnalyseRaises(p) ==
    /\ pc[p] = "saved"
    /\ given' = [given EXCEPT ![p] = files[ImagePath(p, i[p] + 1)]]
    /\ events' = [events EXCEPT ![p] = Append(@, Call("analyse", i[p] + 1, TRUE))]
    /\ err' = [err EXCEPT ![p] = "AnalyzerCapabilityError"]
    /\ pc' = [pc EXCEPT ![p] = "failed"]
    /\ UNCHANGED <<doc, text, lines, i, raw, result, files, lastSaver>>

(* line 158: return "\n".join(lines), returned by line 194 *)
ReturnScanned(p) ==
    /\ pc[p] = "loop"
    /\ i[p] = NumPages(p)
    /\ result' = [result EXCEPT ![p] = Join(lines[p])]
    /\ pc' = [pc EXCEPT ![p] = "done"]
    /\ UNCHANGED <<doc, text, lines, i, raw, err, events, given, files, lastSaver>>

----------------------------------------------------------------------------
(* One analysis: the calls are sequential and synchronous *)

InitWith(procs, docs) ==
    /\ doc \in [procs -> docs]
    /\ pc = [p \in procs |-> "start"]
    /\ text = [p \in procs |-> <<>>]
    /\ lines = [p \in procs |-> <<>>]
    /\ i = [p \in procs |-> 0]
    /\ raw = [p \in procs |-> <<>>]
    /\ result = [p \in procs |-> NoResult]
    /\ err = [p \in procs |-> "none"]
    /\ events = [p \in procs |-> <<>>]
    /\ given = [p \in procs |-> NoImage]
    /\ files = <<>>
    /\ lastSaver = [n \in 1..MaxPages |-> 0]

Init == InitWith({1}, Documents)

Next ==
    \/ \E p \in Procs : ExtractText(p)
    \/ \E p \in Procs : Triage(p)
    \/ \E p \in Procs : ChatReturns(p)
    \/ \E p \in Procs : ChatRaises(p)
    \/ \E p \in Procs : OpenScanned(p)
    \/ \E p \in Procs : RenderPage(p)
    \/ \E p \in Procs : RenderRaises(p)
    \/ \E p \in Procs : AnalysePage(p)
    \/ \E p \in Procs : AnalyseRaises(p)
    \/ \E p \in Procs : ReturnScanned(p)

Spec == Init /\ [][Next]_vars

----------------------------------------------------------------------------
(* Two analyses at once: the Flask handler analyze() of app.py calls       *)
(* analyze_pdf per request, and requests are served concurrently; both     *)
(* analyses stage their page images in the same directory "images".        *)

ConcDocuments ==
    {[openable |-> TRUE, pages |-> Rep(<<>>, n)] : n \in 1..MaxPages}
    \cup {[openable |-> TRUE, pages |-> <<Rep("a", THRESHOLD + 1)>>],
          [openable |-> FALSE, pages |-> <<>>]}

ConcOutputs == {<<>>, <<"a">>}

InitConc == InitWith({1, 2}, ConcDocuments)

NextConc ==
    \/ \E p \in Procs : ExtractText(p)
    \/ \E p \in Procs : Triage(p)
    \/ \E p \in Procs : ChatReturnsWith(p, ConcOutputs)
    \/ \E p \in Procs : ChatRaises(p)
    \/ \E p \in Procs : OpenScanned(p)
    \/ \E p \in Procs : RenderPage(p)
    \/ \E p \in Procs : RenderRaises(p)
    \/ \E p \in Procs : AnalysePageWith(p, ConcOutputs)
    \/ \E p \in Procs : AnalyseRaises(p)
    \/ \E p \in Procs : ReturnScanned(p)

SpecConc == InitConc /\ [][NextConc]_vars

----------------------------------------------------------------------------
(* What the properties speak of *)

Extracted(p) == pc[p] # "start" /\ doc[p].openable

TrimmedLen(p) == Len(Strip(text[p]))

CallsOf(p, op) == SelectSeq(events[p], LAMBDA e : e.op = op)

LastCall(p) == events[p][Len(events[p])]

ChatRaised(p) == events[p] # <<>> /\ events[p][1] = Call("chat", 0, TRUE)

ChatReturned(p) == events[p] # <<>> /\ LastCall(p) = Call("chat", 0, FALSE)

VisionRaised(p) ==
    \E k \in 1..Len(events[p]) :
        events[p][k].op \in {"render", "analyse"} /\ events[p][k].raised

InVision(p) == pc[p] \in {"vision", "loop", "saved"}

DoneByVision(p) == pc[p] = "done" /\ ~ChatReturned(p)

(* the lines of a returned string; the empty string has none *)
ResultLines(s) == IF s = <<>> THEN <<>> ELSE Split(s)

IsBlank(line) == \A k \in 1..Len(line) : line[k] \in Whitespace

NoBlankLine(s) == \A k \in 1..Len(ResultLines(s)) : ~IsBlank(ResultLines(s)[k])

----------------------------------------------------------------------------
(* C1: when the extracted text has trimmed length > 50, analyze_pdf calls  *)
(* the text analyser exactly once, before any page is rendered and before  *)
(* any image-analyser call, and never a second time, also after it failed: *)
(* nothing is called before the triage, and from then on the first call is *)
(* the chat call and it is the only chat call.                             *)
C1_ChatOnceBeforeVision ==
    \A p \in Procs :
        (Extracted(p) /\ TrimmedLen(p) > THRESHOLD) =>
            /\ Len(CallsOf(p, "chat")) <= 1
            /\ pc[p] \in {"extracted", "chat"} => events[p] = <<>>
            /\ pc[p] \notin {"extracted", "chat"} =>
                  /\ events[p] # <<>>
                  /\ events[p][1].op = "chat"
                  /\ Len(CallsOf(p, "chat")) = 1

(* a text-bearing document whose chat call failed and whose two pages *)
(* were then both rendered and analysed                               *)
C1_Witness ==
    \E p \in Procs :
        /\ TrimmedLen(p) > THRESHOLD
        /\ pc[p] = "done"
        /\ ChatRaised(p)
        /\ Len(CallsOf(p, "analyse")) = 2

(* C2: when the extracted text has trimmed length <= 50 (exactly 50 and    *)
(* the empty string included), the text analyser is never called and the   *)
(* triage leads straight to analyse_scanned_pdf.                           *)
C2_ShortTextNeverChat ==
    \A p \in Procs :
        (Extracted(p) /\ TrimmedLen(p) <= THRESHOLD) =>
            /\ CallsOf(p, "chat") = <<>>
            /\ pc[p] \in {"extracted", "vision", "loop", "saved", "done", "failed"}
            /\ pc[p] = "done" => DoneByVision(p)

(* a text of exactly 50 characters once trimmed (51 untrimmed) on the *)
(* vision path                                                        *)
C2_Witness ==
    \E p \in Procs :
        /\ TrimmedLen(p) = THRESHOLD
        /\ Len(text[p]) > THRESHOLD
        /\ pc[p] = "saved"

C2_WitnessEmpty ==
    \E p \in Procs : Extracted(p) /\ text[p] = <<>> /\ pc[p] = "done"

(* C3: a raising text analyser is not propagated: analyze_pdf goes on to   *)
(* the vision fallback, whose calls are render 1, analyse 1, render 2,     *)
(* analyse 2, ... in this order, each page once, each page analysed before *)
(* the next is rendered; when the fallback returns, all the N pages of the *)
(* document have been rendered and analysed.                               *)
C3_ChatFailureFallsBack ==
    \A p \in Procs :
        ChatRaised(p) =>
            LET calls == Tail(events[p]) IN
            /\ pc[p] \in {"vision", "loop", "saved", "done", "failed"}
            /\ pc[p] = "failed" => calls # <<>>
            /\ \A k \in 1..Len(calls) :
                  /\ calls[k].op = IF k % 2 = 1 THEN "render" ELSE "analyse"
                  /\ calls[k].page = (k + 1) \div 2
                  /\ k < Len(calls) => ~calls[k].raised
            /\ pc[p] = "done" =>
                  /\ Len(calls) = 2 * NumPages(p)
                  /\ ~LastCall(p).raised

C3_Witness ==
    \E p \in Procs :
        /\ ChatRaised(p)
        /\ pc[p] = "done"
        /\ NumPages(p) = 2
        /\ Len(events[p]) = 5

----------------------------------------------------------------------------
(* C4 as stated: the string analyze_pdf returns never contains a blank or  *)
(* whitespace-only line, on the text path and on the vision path.          *)
C4_NoBlankLineOnBothPaths ==
    \A p \in Procs : pc[p] = "done" => NoBlankLine(result[p])

(* C4 as amended: the result of the vision path never contains a blank or  *)
(* whitespace-only line; the result of the text path is the response with  *)
(* the white space at its two ends removed and nothing else changed, so    *)
(* the blank lines inside the response are kept.                           *)
C4_NoBlankLineOnVisionPath ==
    \A p \in Procs :
        /\ DoneByVision(p) => NoBlankLine(result[p])
        /\ (pc[p] = "done" /\ ChatReturned(p)) =>
              /\ result[p] # <<>> =>
                    /\ result[p][1] \notin Whitespace
                    /\ result[p][Len(result[p])] \notin Whitespace
              /\ \E k \in 0..(Len(raw[p]) - Len(result[p])) :
                    /\ SubSeq(raw[p], k + 1, k + Len(result[p])) = result[p]
                    /\ \A j \in 1..Len(raw[p]) :
                          (j <= k \/ j > k + Len(result[p])) => raw[p][j] \in Whitespace

(* the vision path returned two lines after a response that held a blank *)
(* line between two criterion lines                                      *)
C4_Witness ==
    \E p \in Procs :
        /\ DoneByVision(p)
        /\ Len(ResultLines(result[p])) >= 2
        /\ \E k \in 1..Len(Split(Strip(raw[p]))) : IsBlank(Split(Strip(raw[p]))[k])

(* the lines the image analyser returned for one page: each line of the *)
(* response that is not blank, trimmed, in the order of the response    *)
ReturnedLines(content) ==
    LET ls == Split(content)
        trimmed == [k \in 1..Len(ls) |-> Strip(ls[k])]
    IN SelectSeq(trimmed, LAMBDA l : l # <<>>)

(* C5: in the vision fallback every analysed page appends its non-blank    *)
(* lines, in the order the image analyser returned them, after the lines   *)
(* of all the earlier pages, and the string returned holds exactly the     *)
(* collected lines in that order.                                          *)
C5_LineOrderIsPageOrder ==
    /\ [](\A p \in Procs : DoneByVision(p) => ResultLines(result[p]) = lines[p])
    /\ [][\A p \in DOMAIN pc :
            (pc[p] = "saved" /\ pc'[p] = "loop") =>
                lines'[p] = lines[p] \o ReturnedLines(raw'[p])]_vars

(* two pages analysed, the second contributing two lines after the first's *)
C5_Witness ==
    \E p \in Procs :
        /\ DoneByVision(p)
        /\ NumPages(p) = 2
        /\ Len(ReturnedLines(raw[p])) = 2
        /\ Len(lines[p]) > 2
        /\ lines[p][1] # lines[p][Len(lines[p])]

(* C6: analyze_pdf has no partial result.  When rendering or the image     *)
(* analyser raises on page k the call fails: nothing is returned, whatever *)
(* was collected from the pages before k, and no page after k is rendered  *)
(* or analysed.  A call that returns on the vision path has rendered and   *)
(* analysed every page.                                                    *)
C6_NoPartialResult ==
    \A p \in Procs :
        /\ pc[p] = "failed" => result[p] = NoResult
        /\ \A k \in 1..Len(events[p]) :
              (events[p][k].op \in {"render", "analyse"} /\ events[p][k].raised) =>
                  /\ pc[p] = "failed"
                  /\ result[p] = NoResult
                  /\ k = Len(events[p])
                  /\ \A j \in 1..Len(events[p]) : events[p][j].page <= events[p][k].page
        /\ DoneByVision(p) =>
              /\ Len(CallsOf(p, "render")) = NumPages(p)
              /\ Len(CallsOf(p, "analyse")) = NumPages(p)

(* the image analyser raised on page 2 after page 1 had contributed lines *)
C6_Witness ==
    \E p \in Procs :
        /\ pc[p] = "failed"
        /\ err[p] = "AnalyzerCapabilityError"
        /\ LastCall(p).page = 2
        /\ lines[p] # <<>>

(* C7 as stated: an analysis ends in Failed only when the document cannot  *)
(* be opened; every other run ends in Done.                                *)
C7_FailedOnlyWhenUnopenable ==
    \A p \in Procs : pc[p] = "failed" => ~doc[p].openable

(* C7 as amended: an analysis ends in Failed when the document cannot be   *)
(* opened and also when rendering a page or the image analyser raises in   *)
(* the vision fallback, and in no other case; every other run goes on      *)
(* until it ends in Done with a result, possibly empty.                    *)
C7_FailedWhenUnopenableOrVisionRaises ==
    \A p \in Procs :
        /\ pc[p] = "failed" =>
              \/ ~doc[p].openable /\ events[p] = <<>> /\ err[p] = "DocumentOpenError"
              \/ doc[p].openable /\ VisionRaised(p)
                    /\ err[p] \in {"RenderError", "AnalyzerCapabilityError"}
        /\ VisionRaised(p) => pc[p] = "failed"
        /\ (~doc[p].openable /\ pc[p] # "start") => pc[p] = "failed"
        /\ pc[p] = "done" => result[p] # NoResult /\ err[p] = "none"
        /\ pc[p] \notin {"done", "failed"} =>
              ENABLED (\/ ExtractText(p) \/ Triage(p) \/ ChatReturns(p)
                       \/ OpenScanned(p) \/ RenderPage(p) \/ AnalysePage(p)
                       \/ ReturnScanned(p))

(* a document that opened, and whose analysis failed in the fallback *)
C7_Witness ==
    \E p \in Procs :
        /\ pc[p] = "failed"
        /\ doc[p].openable
        /\ err[p] = "RenderError"

----------------------------------------------------------------------------
(* C8: the staged image is keyed by the page number alone.  The file an    *)
(* analysis is about to hand to the image analyser holds the page image of *)
(* whichever analysis saved that page number last, and what the image      *)
(* analyser was given is a page image of that number, of either document:  *)
(* an analysis that saved page n between another's save and read of page n *)
(* has its image given to the other's image analyser.                      *)
C8_StagedImageKeyedByPageOnly ==
    \A p \in Procs :
        /\ pc[p] = "saved" =>
              /\ lastSaver[i[p] + 1] \in Procs
              /\ files[ImagePath(p, i[p] + 1)] = PageImage(lastSaver[i[p] + 1], i[p] + 1)
        /\ given[p] # NoImage =>
              /\ given[p].owner \in Procs
              /\ given[p].page = CallsOf(p, "analyse")[Len(CallsOf(p, "analyse"))].page

(* the image analyser of one document was given a page of the other *)
C8_Witness ==
    \E p \in Procs :
        /\ given[p] # NoImage
        /\ given[p].owner # p
        /\ doc[given[p].owner] # doc[p]
        /\ LastCall(p) = Call("analyse", given[p].page, FALSE)

(* C9 as stated: the extracted text is the pages' texts in page order with *)
(* one newline per page boundary: N - 1 newlines between consecutive pages *)
(* and none after the last page; empty for a document of no page.          *)
C9_NewlineBetweenPagesOnly ==
    \A p \in Procs : Extracted(p) => text[p] = Join(doc[p].pages)

(* where page k starts in the text when every page is followed by a newline *)
RECURSIVE Offset(_, _)
Offset(pages, k) == IF k = 1 THEN 0 ELSE Offset(pages, k - 1) + Len(pages[k - 1]) + 1

(* C9 as amended: the extracted text is the pages' texts in page order,    *)
(* each page's text followed by one newline, the last page's too: N        *)
(* newlines are inserted for N pages; empty for a document of no page.     *)
C9_NewlineAfterEveryPage ==
    \A p \in Procs :
        Extracted(p) =>
            LET pages == doc[p].pages
                N == Len(pages)
            IN /\ Len(text[p]) = Offset(pages, N + 1)
               /\ N = 0 => text[p] = <<>>
               /\ \A k \in 1..N :
                     /\ SubSeq(text[p], Offset(pages, k) + 1, Offset(pages, k) + Len(pages[k]))
                           = pages[k]
                     /\ text[p][Offset(pages, k + 1)] = NL

(* two pages of text extracted *)
C9_Witness ==
    \E p \in Procs :
        /\ Extracted(p)
        /\ NumPages(p) = 2
        /\ doc[p].pages[1] # <<>>
        /\ doc[p].pages[2] # <<>>

(* C10: when the text analyser returns, the empty string included,         *)
(* analyze_pdf is done with the text analyser's output as its result, and  *)
(* no page was rendered, no image file written, no image-analyser call     *)
(* made; the vision fallback is entered only when the trimmed text is not  *)
(* longer than 50 or the text analyser raised.                             *)
C10_ChatSuccessSkipsVision ==
    \A p \in Procs :
        /\ (\E k \in 1..Len(events[p]) : events[p][k] = Call("chat", 0, FALSE)) =>
              /\ pc[p] = "done"
              /\ events[p] = <<Call("chat", 0, FALSE)>>
              /\ result[p] = Strip(raw[p])
              /\ given[p] = NoImage
              /\ \A f \in DOMAIN files : files[f].owner # p
        /\ (InVision(p) \/ CallsOf(p, "render") # <<>>) =>
              (TrimmedLen(p) <= THRESHOLD \/ ChatRaised(p))

(* the text analyser returned white space only: the result is the empty *)
(* string and the analysis is done                                      *)
C10_Witness ==
    \E p \in Procs :
        /\ pc[p] = "done"
        /\ ChatReturned(p)
        /\ raw[p] # <<>>
        /\ result[p] = <<>>
        /\ NumPages(p) > 0

====
